---- MODULE Spec2Model ----
(***************************************************************************)
(* Model of bot.py: the per-user processing guard, the URL pipeline        *)
(* (extract -> bounded download -> send_video_smart) and the upload        *)
(* pipeline (handle_video_file).  Every coroutine is cut at its awaits:    *)
(* one action is the resumption after one awaited call, with the outcome   *)
(* of that call chosen here, followed by the synchronous code up to the    *)
(* next await.  asyncio runs one coroutine at a time, so the code between  *)
(* two awaits is atomic.  Sizes are bytes; durations are centiseconds.     *)
(***************************************************************************)
EXTENDS Integers, Sequences, FiniteSets, TLC

VARIABLES
    pc,               \* task -> the await the task is suspended in
    loc,              \* task -> local variables of its handler
    hist,             \* task -> what the task has done so far (observations)
    user_processing,  \* the dict user_processing (bot.py:38)
    user_stats,       \* the dict user_stats (bot.py:35)
    disk,             \* TEMP_DIR: path -> size in bytes
    guardLog,         \* user -> its last guard events: "acq" / "ref" / "rel"
    nreq,             \* updates that passed the guard check so far
    faults,           \* Telegram API calls that have raised so far
    active,           \* the task slots that take updates in this run
    tally             \* user -> its fetches and uploads that succeeded so far

vars ==
    <<pc, loc, hist, user_processing, user_stats, disk, guardLog, nreq, faults, active, tally>>

----------------------------------------------------------------------------
\* Bounds of the model.
MaxFaults == 1

Tasks == {"t1", "t2"}
Users == {"u1", "u2"}
Titles == {"a", "b"}

\* Program constants.
TELEGRAM_VIDEO_LIMIT == 50 * 1024 * 1024
TELEGRAM_DOCUMENT_LIMIT == 2000 * 1024 * 1024
DefaultMaxBytes == 2000 * 1024 * 1024
SplitChunkDuration == 600 * 100

\* Inputs of the environment.  A run with one task slot handles one update
\* alone and draws from the wide sets; a run with two slots handles two
\* updates, one after the other or interleaved, and draws from the narrow
\* ones.
Wide == Cardinality(active) = 1

\* Users and titles are interchangeable: of two slots the first serves
\* u1 and title a, the second the same user, or another user with the same
\* title or with another one.
UsersOf(t) == IF Wide \/ t # "t1" THEN Users ELSE {"u1"}

TitlesOf(u) == IF Wide \/ u # "u1" THEN Titles ELSE {"a"}

\* As many updates pass the guard check in a run as there are slots in use.
MaxRequests == Cardinality(active)

BodySizes ==
    IF Wide
    THEN {TELEGRAM_VIDEO_LIMIT - 1, TELEGRAM_VIDEO_LIMIT,
          TELEGRAM_DOCUMENT_LIMIT, TELEGRAM_DOCUMENT_LIMIT + 1,
          TELEGRAM_DOCUMENT_LIMIT + 3 * 8192}
    ELSE {TELEGRAM_VIDEO_LIMIT - 1, TELEGRAM_VIDEO_LIMIT, TELEGRAM_DOCUMENT_LIMIT}

\* ffprobe's answer in compress_video and in split_video (0: it failed).
CompressDurations == {0, 12000}

SplitDurations == IF Wide THEN {0, 12000, 60000} ELSE {0, 60000}

\* What one ffmpeg run leaves: exit status and output size (-1: no file).
EncoderOutcomes ==
    IF Wide
    THEN {[rc |-> 0, out |-> -1], [rc |-> 0, out |-> 0],
          [rc |-> 0, out |-> TELEGRAM_VIDEO_LIMIT - 1],
          [rc |-> 0, out |-> TELEGRAM_VIDEO_LIMIT],
          [rc |-> 1, out |-> -1], [rc |-> 1, out |-> TELEGRAM_VIDEO_LIMIT - 1]}
    ELSE {[rc |-> 0, out |-> TELEGRAM_VIDEO_LIMIT - 1],
          [rc |-> 0, out |-> TELEGRAM_VIDEO_LIMIT],
          [rc |-> 1, out |-> TELEGRAM_VIDEO_LIMIT - 1]}

SliceOutcomes ==
    IF Wide
    THEN {[rc |-> 0, out |-> -1], [rc |-> 0, out |-> 0],
          [rc |-> 0, out |-> TELEGRAM_VIDEO_LIMIT - 1],
          [rc |-> 0, out |-> TELEGRAM_VIDEO_LIMIT],
          [rc |-> 1, out |-> -1], [rc |-> 1, out |-> TELEGRAM_VIDEO_LIMIT - 1]}
    ELSE {[rc |-> 0, out |-> TELEGRAM_VIDEO_LIMIT - 1], [rc |-> 1, out |-> -1]}

HttpStatuses == IF Wide THEN {200, 206, 404} ELSE {200, 404}

UploadSizes ==
    IF Wide
    THEN {0, TELEGRAM_VIDEO_LIMIT, TELEGRAM_VIDEO_LIMIT + 1}
    ELSE {0, TELEGRAM_VIDEO_LIMIT + 1}

\* handle_video_file samples 3 clips of 5 s (bot.py:879-887).
NumClips == 3

ClipDuration == 5 * 100

\* Length of an uploaded video, in centiseconds.
ClipDurations ==
    IF Wide THEN {18 * 100, 25 * 100, 40 * 100, 60 * 100} ELSE {18 * 100}

\* A trim that exits by itself ends with a return code (-9: killed by a
\* signal) and leaves a clip file of some size (-1: none).
TrimOutcomes ==
    IF Wide
    THEN {[rc |-> 0, out |-> 60 * 1024], [rc |-> 0, out |-> 512],
          [rc |-> 1, out |-> -1], [rc |-> 1, out |-> 512], [rc |-> -9, out |-> 512]}
    ELSE {[rc |-> 0, out |-> 60 * 1024]}

\* generate_clips, bot.py:368-380: a trim that is still running after its
\* timeout exits on terminate(), or is killed after a grace period of 5 s;
\* it leaves the part of the clip it has written, if any.
TrimTimeouts ==
    IF Wide
    THEN {[by |-> "terminate", out |-> 60 * 1024], [by |-> "kill", out |-> -1]}
    ELSE {}

\* generate_clips, bot.py:406-413 and 428-431: the verification ffprobe
\* exits with 0 or with an error, or it cannot be started and the await
\* raises (an OSError), which the except block of the loop body catches.
VerifyOutcomes == IF Wide THEN {"passed", "rejected", "raised"} ELSE {"passed", "rejected"}

ProxyOutcomes ==
    IF Wide
    THEN {[rc |-> 0, out |-> 1024 * 1024], [rc |-> 1, out |-> -1],
          [rc |-> 1, out |-> 512]}
    ELSE {[rc |-> 0, out |-> 1024 * 1024]}

NoPath == <<>>
NoTitle == ""
NoUrl == ""

\* What ydl.extract_info answers (bot.py:210-212): it raises, or returns an
\* info dict with or without a top-level 'url' and with a list of formats
\* whose entries have a 'url' or lack it.
ExtractInfos ==
    IF Wide
    THEN {[raises |-> TRUE, url |-> NoUrl, formats |-> <<>>],
          [raises |-> FALSE, url |-> "direct", formats |-> <<>>],
          [raises |-> FALSE, url |-> "direct", formats |-> <<[url |-> "f1"], [url |-> "f2"]>>],
          [raises |-> FALSE, url |-> NoUrl, formats |-> <<[url |-> "f1"], [url |-> "f2"]>>],
          [raises |-> FALSE, url |-> NoUrl, formats |-> <<[url |-> "f1"], [url |-> NoUrl]>>],
          [raises |-> FALSE, url |-> NoUrl, formats |-> <<>>]}
    ELSE {[raises |-> TRUE, url |-> NoUrl, formats |-> <<>>],
          [raises |-> FALSE, url |-> "direct", formats |-> <<>>]}

\* info before extract_info has been called.
NoInfo == [raises |-> FALSE, url |-> NoUrl, formats |-> <<>>]

\* The format preferences handed to yt-dlp in one selector (bot.py:197).
FormatPreferences ==
    <<"bestvideo[ext=mp4]+bestaudio[ext=m4a]", "best[ext=mp4]", "best">>

\* The result extract_video_url returns on failure (bot.py:222).
None == [url |-> NoUrl, title |-> NoTitle]

----------------------------------------------------------------------------
\* The file system seen through os.path.exists / getsize / remove / open(wb).
Exists(dk, p) == p \in DOMAIN dk

RemoveFile(dk, p) == [q \in DOMAIN dk \ {p} |-> dk[q]]

WriteFile(dk, p, size) == [q \in DOMAIN dk \cup {p} |-> IF q = p THEN size ELSE dk[q]]

\* Paths built from a download's file name.
DownloadPath(title) == <<"dl", title>>

CompressedPath(filepath) == <<"compressed", filepath[2]>>

ChunkPath(filepath, part) == <<"part", filepath[2], part>>

UploadPath(user) == <<"video", user>>

ProxyPath(filepath) == filepath \o <<"proxy">>

ClipPath(filepath, n) == filepath \o <<"clip", n>>

\* The files handle_video_file's cleanup matches: video_{user_id}_*.
OwnedBy(user, p) == p[1] = "video" /\ p[2] = user

----------------------------------------------------------------------------
\* The processing guard (bot.py:42-52).
is_user_processing_never(user_id) == FALSE

is_user_processing(user_id) ==
    IF user_id \in DOMAIN user_processing THEN user_processing[user_id] ELSE FALSE

set_user_processing_always(up, user_id, status) ==
    [x \in DOMAIN up \cup {user_id} |-> IF x = user_id THEN TRUE ELSE up[x]]

set_user_processing(up, user_id, status) ==
    LET up1 == [x \in DOMAIN up \cup {user_id} |-> IF x = user_id THEN status ELSE up[x]]
    IN  IF ~status
        THEN [x \in DOMAIN up1 \ {user_id} |-> up1[x]]
        ELSE up1

\* update_stats (bot.py:54-58).
update_stats(us, user_id, stat_type) ==
    LET us1 == IF user_id \in DOMAIN us
               THEN us
               ELSE [x \in DOMAIN us \cup {user_id} |->
                        IF x = user_id THEN [downloads |-> 0, clips |-> 0] ELSE us[x]]
    IN  [us1 EXCEPT ![user_id][stat_type] = @ + 1]

\* get_stats (bot.py:60-62).
get_stats(us, user_id) ==
    IF user_id \in DOMAIN us THEN us[user_id] ELSE [downloads |-> 0, clips |-> 0]

\* One more download of the user has succeeded: a URL fetch that returned
\* its path ("fetched", bot.py:772-776), or an upload received from
\* Telegram as a file that is not empty ("received", bot.py:863-868).
Tallied(ty, user_id, what) == [ty EXCEPT ![user_id][what] = @ + 1]

\* A Telegram API call either returns or raises; raises are budgeted.
TgOutcomes == IF faults < MaxFaults THEN {TRUE, FALSE} ELSE {TRUE}

CountFault(ok) == faults' = IF ok THEN faults ELSE faults + 1

----------------------------------------------------------------------------
InitLoc ==
    [user |-> "u1", kind |-> "none", title |-> NoTitle, filepath |-> NoPath,
     status |-> 0, dl |-> "none", body |-> -1, file_size |-> -1, duration |-> -1,
     num_parts |-> 0, i |-> 0, chunks |-> <<>>, k |-> 0, cres |-> "none",
     split |-> "none", svs |-> "none", clips |-> <<>>, length |-> -1,
     sampler |-> "none", stage |-> "none", src |-> NoPath, positions |-> <<>>,
     info |-> NoInfo, url |-> NoUrl, downloaded |-> 0]

InitHist ==
    [holding |-> FALSE, sends |-> <<>>, delivered |-> 0, msgs |-> {}, plan |-> "none",
     encRuns |-> 0, sliceRuns |-> 0, trims |-> <<>>, timeouts |-> {}, encoded |-> {},
     passed |-> {}, extracts |-> 0,
     fetches |-> 0,
     outcome |-> "none"]

Init ==
    /\ pc = [t \in Tasks |-> "idle"]
    /\ loc = [t \in Tasks |-> InitLoc]
    /\ hist = [t \in Tasks |-> InitHist]
    /\ user_processing = [u \in {} |-> TRUE]
    /\ user_stats = [u \in {} |-> [downloads |-> 0, clips |-> 0]]
    /\ disk = [p \in {} |-> 0]
    /\ guardLog = [u \in Users |-> <<>>]
    /\ nreq = 0
    /\ faults = 0
    /\ active \in {{"t1"}, Tasks}
    /\ tally = [u \in Users |-> [fetched |-> 0, received |-> 0]]

\* Observations.
Say(h, m) == [h EXCEPT !.msgs = @ \cup {m}]

\* The guard log keeps the last four events of a user; a refusal that
\* follows a refusal is not logged again.
Log(u, e) ==
    guardLog' = [guardLog EXCEPT ![u] =
                    IF e = "ref" /\ @ # <<>> /\ @[Len(@)] = "ref" THEN @
                    ELSE IF Len(@) < 4 THEN Append(@, e)
                    ELSE Append(Tail(@), e)]

----------------------------------------------------------------------------
\* handle_url's finally block (bot.py:803-812), then the coroutine ends:
\* how = "returned" or "raised" (an exception leaves handle_url).
UrlFinallyKeepsFile(t, h, dk, how) ==
    /\ user_processing' = set_user_processing(user_processing, loc[t].user, FALSE)
    /\ disk' = dk
    /\ hist' = [hist EXCEPT ![t] = [h EXCEPT !.holding = FALSE, !.outcome = how]]
    /\ pc' = [pc EXCEPT ![t] = "idle"]
    /\ Log(loc[t].user, "rel")

UrlFinallyKeepsFlag(t, h, dk, how) ==
    LET fp == loc[t].filepath
    IN  /\ UNCHANGED user_processing
        /\ disk' = IF fp # NoPath /\ Exists(dk, fp) THEN RemoveFile(dk, fp) ELSE dk
        /\ hist' = [hist EXCEPT ![t] = [h EXCEPT !.outcome = how]]
        /\ pc' = [pc EXCEPT ![t] = "idle"]
        /\ UNCHANGED guardLog

UrlFinally(t, h, dk, how) ==
    LET u == loc[t].user
        fp == loc[t].filepath
    IN  /\ user_processing' = set_user_processing(user_processing, u, FALSE)
        /\ disk' = IF fp # NoPath /\ Exists(dk, fp) THEN RemoveFile(dk, fp) ELSE dk
        /\ hist' = [hist EXCEPT ![t] = [h EXCEPT !.holding = FALSE, !.outcome = how]]
        /\ pc' = [pc EXCEPT ![t] = "idle"]
        /\ Log(u, "rel")

\* handle_url's except block (bot.py:800-802): awaits status_msg.edit_text.
UrlExcept(t, h, dk) ==
    /\ pc' = [pc EXCEPT ![t] = "url_except"]
    /\ hist' = [hist EXCEPT ![t] = Say(h, "error")]
    /\ disk' = dk
    /\ UNCHANGED <<user_processing, guardLog>>

\* An exception leaves the coroutine before its try block is entered:
\* nothing is released.
Escapes(t) ==
    /\ pc' = [pc EXCEPT ![t] = "idle"]
    /\ hist' = [hist EXCEPT ![t].outcome = "raised"]
    /\ UNCHANGED <<loc, user_processing, user_stats, disk, guardLog>>

\* A handler that finds the flag set awaits its "Please wait" reply and
\* returns (bot.py:740-742, 819-821, 1044-1046).
RefuseThenProceed(t, u) ==
    /\ pc' = [pc EXCEPT ![t] = "url_status"]
    /\ hist' = [hist EXCEPT ![t] = Say(InitHist, "busy")]
    /\ Log(u, "ref")
    /\ UNCHANGED user_processing

Refuse(t, u) ==
    /\ pc' = [pc EXCEPT ![t] = "busy_reply"]
    /\ hist' = [hist EXCEPT ![t] = Say(InitHist, "busy")]
    /\ Log(u, "ref")
    /\ UNCHANGED user_processing

\* The body of handle_url from its guard check to its first await
\* (bot.py:737-760); the URL is one fallback_message has parsed.
handle_url_entry(t, u) ==
    IF is_user_processing(u)
    THEN Refuse(t, u)
    ELSE /\ user_processing' = set_user_processing(user_processing, u, TRUE)
         /\ pc' = [pc EXCEPT ![t] = "url_status"]
         /\ hist' = [hist EXCEPT ![t] = [Say(InitHist, "extracting") EXCEPT !.holding = TRUE]]
         /\ Log(u, "acq")

\* fallback_message (bot.py:1040-1060): a text update arrives.
fallback_message(t) ==
    /\ pc[t] = "idle"
    /\ t \in active
    /\ nreq < MaxRequests
    /\ \E u \in UsersOf(t), isUrl \in BOOLEAN :
        /\ loc' = [loc EXCEPT ![t] = [InitLoc EXCEPT !.user = u,
                                        !.kind = IF isUrl THEN "url" ELSE "text"]]
        /\ nreq' = IF is_user_processing(u) THEN nreq ELSE nreq + 1
        /\ IF is_user_processing(u)
           THEN Refuse(t, u)
           ELSE IF isUrl
                THEN handle_url_entry(t, u)
                ELSE /\ pc' = [pc EXCEPT ![t] = "help_reply"]
                     /\ hist' = [hist EXCEPT ![t] = Say(InitHist, "help")]
                     /\ UNCHANGED <<user_processing, guardLog>>
    /\ UNCHANGED <<user_stats, disk, faults, active, tally>>

\* The awaited reply of a refused or non-URL update returns or raises;
\* either way the handler ends there (bot.py:741-742, 820-821, 1045-1046,
\* 1058-1060).
PlainReply(t) ==
    /\ pc[t] \in {"busy_reply", "help_reply"}
    /\ \E ok \in TgOutcomes :
        /\ CountFault(ok)
        /\ pc' = [pc EXCEPT ![t] = "idle"]
        /\ hist' = [hist EXCEPT ![t].outcome = IF ok THEN "returned" ELSE "raised"]
    /\ UNCHANGED <<loc, user_processing, user_stats, disk, guardLog, nreq, active, tally>>

----------------------------------------------------------------------------
\* extract_video_url (bot.py:194-222): one extract_info call; the stream URL
\* is info['url'] or, without it, the 'url' of the last format; an exception
\* (raised by yt-dlp, or a missing key or an empty list) gives None.
extract_video_url_last_first(info, title) ==
    IF info.raises THEN None
    ELSE IF info.formats # <<>> /\ info.formats[Len(info.formats)].url # NoUrl
    THEN [url |-> info.formats[Len(info.formats)].url, title |-> title]
    ELSE IF info.url # NoUrl THEN [url |-> info.url, title |-> title]
    ELSE None

extract_video_url(info, title) ==
    IF info.raises THEN None
    ELSE IF info.url # NoUrl THEN [url |-> info.url, title |-> title]
    ELSE IF info.formats = <<>> THEN None
    ELSE IF info.formats[Len(info.formats)].url = NoUrl THEN None
    ELSE [url |-> info.formats[Len(info.formats)].url, title |-> title]

\* handle_url, bot.py:760-769: the "Extracting" reply returns; then
\* extract_video_url runs synchronously and the next status edit is awaited.
UrlStatusReply(t) ==
    /\ pc[t] = "url_status"
    /\ \E ok \in TgOutcomes :
        /\ CountFault(ok)
        /\ IF ~ok
           THEN Escapes(t)
           ELSE \E answer \in ExtractInfos, title \in TitlesOf(loc[t].user) :
                LET info == extract_video_url(answer, title)
                    h == [hist[t] EXCEPT !.extracts = @ + 1]
                IN
                /\ loc' = [loc EXCEPT ![t].title = info.title, ![t].url = info.url,
                                      ![t].info = answer]
                /\ IF info = None
                   THEN /\ pc' = [pc EXCEPT ![t] = "url_noextract"]
                        /\ hist' = [hist EXCEPT ![t] = Say(h, "noextract")]
                   ELSE /\ pc' = [pc EXCEPT ![t] = "url_dlmsg"]
                        /\ hist' = [hist EXCEPT ![t] = Say(h, "downloading")]
                /\ UNCHANGED <<user_processing, user_stats, disk, guardLog>>
    /\ UNCHANGED <<nreq, active, tally>>

\* bot.py:766-767 and 775-776, 796-798: a final status edit returns (then
\* the finally block) or raises (then the except block).
UrlFinalStatus(t) ==
    /\ pc[t] \in {"url_noextract", "url_dlfail", "url_ok", "url_fail"}
    /\ \E ok \in TgOutcomes :
        /\ CountFault(ok)
        /\ IF ok
           THEN UrlFinally(t, hist[t], disk, "returned")
           ELSE UrlExcept(t, hist[t], disk)
    /\ UNCHANGED <<loc, user_stats, nreq, active, tally>>

\* bot.py:802-812: the edit in the except block returns or raises; the
\* finally block runs in both cases.
UrlExceptReply(t) ==
    /\ pc[t] = "url_except"
    /\ \E ok \in TgOutcomes :
        /\ CountFault(ok)
        /\ UrlFinally(t, hist[t], disk, IF ok THEN "returned" ELSE "raised")
    /\ UNCHANGED <<loc, user_stats, nreq, active, tally>>

\* bot.py:769-772 with download_file_async up to session.get (224-234).
UrlDownloadMsg(t) ==
    /\ pc[t] = "url_dlmsg"
    /\ \E ok \in TgOutcomes :
        /\ CountFault(ok)
        /\ IF ok
           THEN /\ pc' = [pc EXCEPT ![t] = "dl_get"]
                /\ hist' = [hist EXCEPT ![t].fetches = @ + 1]
                /\ UNCHANGED <<disk, user_processing, guardLog>>
           ELSE UrlExcept(t, hist[t], disk)
    /\ UNCHANGED <<loc, user_stats, nreq, active, tally>>

\* handle_url after download_file_async returned None (bot.py:774-776).
DownloadFailed(t, lc, dk) ==
    /\ pc' = [pc EXCEPT ![t] = "url_dlfail"]
    /\ hist' = [hist EXCEPT ![t] = Say(@, "dlfail")]
    /\ loc' = [loc EXCEPT ![t] = lc]
    /\ disk' = dk
    /\ UNCHANGED user_stats

\* download_file_async, bot.py:235: only status 200 is read further.
StatusOkAny(status) == TRUE

StatusOk(status) == status = 200

\* download_file_async, bot.py:244-250: the chunk that takes the count over
\* max_bytes has been written (downloaded bytes in all) and the file is
\* removed; removing a path that is gone raises, and the except block
\* (255-257) returns None as well.
StreamExceededKeepsFile(dk, path, downloaded) ==
    IF Exists(dk, path) THEN WriteFile(dk, path, downloaded) ELSE dk

StreamExceeded(dk, path, downloaded) ==
    IF Exists(dk, path) THEN RemoveFile(WriteFile(dk, path, downloaded), path) ELSE dk

\* The bytes read when the excess is noticed: the first chunk boundary
\* beyond max_bytes, or the end of the body.
DownloadedWholeBody(body, max_bytes, chunk) == body

DownloadedAtExcess(body, max_bytes, chunk) ==
    LET boundary == ((max_bytes \div chunk) + 1) * chunk
    IN  IF body < boundary THEN body ELSE boundary

\* download_file_async, bot.py:234-243: the response arrives (or the
\* connection fails); on status 200 the destination is opened for writing.
DownloadResponse(t) ==
    /\ pc[t] = "dl_get"
    /\ \E r \in HttpStatuses, connected \in BOOLEAN :
        IF ~connected
        THEN DownloadFailed(t, [loc[t] EXCEPT !.dl = "noresponse"], disk)
        ELSE IF StatusOk(r)
        THEN /\ pc' = [pc EXCEPT ![t] = "dl_stream"]
             /\ disk' = WriteFile(disk, DownloadPath(loc[t].title), 0)
             /\ loc' = [loc EXCEPT ![t].status = r]
             /\ UNCHANGED <<hist, user_stats>>
        ELSE DownloadFailed(t, [loc[t] EXCEPT !.status = r, !.dl = "badstatus"], disk)
    /\ UNCHANGED <<user_processing, guardLog, nreq, faults, active, tally>>

\* download_file_async, bot.py:244-257: the body is streamed into the file.
\* The stream ends in an I/O error (the partial file stays), or exceeds
\* max_bytes (the file is removed), or completes.  A path unlinked by
\* another coroutine meanwhile stays absent, and getsize (252) then raises.
\* On success handle_url goes on to its "Sending" edit (bot.py:778-786).
DownloadStream(t) ==
    /\ pc[t] = "dl_stream"
    /\ \E s \in BodySizes, io \in {"complete", "error"} :
        LET path == DownloadPath(loc[t].title)
            present == Exists(disk, path)
            lc == [loc[t] EXCEPT !.body = s]
        IN  IF io = "error"
            THEN DownloadFailed(t, [loc[t] EXCEPT !.dl = "ioerror", !.downloaded = 8192],
                                IF present THEN WriteFile(disk, path, 8192) ELSE disk)
            ELSE IF s > DefaultMaxBytes
            THEN DownloadFailed(t, [lc EXCEPT !.dl = "toolarge",
                                              !.downloaded =
                                                  DownloadedAtExcess(s, DefaultMaxBytes, 8192)],
                                StreamExceeded(disk, path,
                                               DownloadedAtExcess(s, DefaultMaxBytes, 8192)))
            ELSE IF ~present
            THEN DownloadFailed(t, [lc EXCEPT !.dl = "vanished", !.downloaded = s], disk)
            ELSE /\ disk' = WriteFile(disk, path, s)
                 /\ loc' = [loc EXCEPT ![t] = [lc EXCEPT !.filepath = path, !.dl = "ok",
                                                         !.downloaded = s]]
                 /\ user_stats' = update_stats(user_stats, loc[t].user, "downloads")
                 /\ pc' = [pc EXCEPT ![t] = "url_sendmsg"]
                 /\ hist' = [hist EXCEPT ![t] = Say(@, "sending")]
    /\ tally' = IF loc'[t].dl = "ok" THEN Tallied(tally, loc[t].user, "fetched") ELSE tally
    /\ UNCHANGED <<user_processing, guardLog, nreq, faults, active>>

----------------------------------------------------------------------------
\* send_video_smart (bot.py:591-706).

\* The if / elif / else on the measured size (bot.py:608, 621, 661).
DeliveryClassLax(file_size) ==
    IF file_size <= TELEGRAM_VIDEO_LIMIT THEN "direct"
    ELSE IF file_size <= TELEGRAM_DOCUMENT_LIMIT THEN "compress"
    ELSE "split"

DeliveryClass(file_size) ==
    IF file_size < TELEGRAM_VIDEO_LIMIT THEN "direct"
    ELSE IF file_size < TELEGRAM_DOCUMENT_LIMIT THEN "compress"
    ELSE "split"

\* An artifact is opened and handed to reply_video / reply_document.
Attempt(h, kind, path, size) ==
    [h EXCEPT !.sends = Append(@, [kind |-> kind, path |-> path, size |-> size])]

Delivered(h) == [h EXCEPT !.delivered = @ + 1]

\* send_video_smart returns to handle_url, which awaits its final status
\* edit (bot.py:795-798).
SvsReturn(t, h, lc, dk, result) ==
    /\ pc' = [pc EXCEPT ![t] = IF result THEN "url_ok" ELSE "url_fail"]
    /\ hist' = [hist EXCEPT ![t] = Say(h, IF result THEN "sent_ok" ELSE "send_failed")]
    /\ loc' = [loc EXCEPT ![t] = [lc EXCEPT !.svs = IF result THEN "true" ELSE "false"]]
    /\ disk' = dk
    /\ UNCHANGED <<user_processing, guardLog>>

\* The except block of send_video_smart (bot.py:703-706) awaits a reply.
SvsExcept(t, h, lc, dk) ==
    /\ pc' = [pc EXCEPT ![t] = "svs_err"]
    /\ hist' = [hist EXCEPT ![t] = Say(h, "send_error")]
    /\ loc' = [loc EXCEPT ![t] = lc]
    /\ disk' = dk
    /\ UNCHANGED <<user_processing, guardLog>>

\* Any state of send_video_smart reached by an await moves on.
SvsGoto(t, h, lc, dk, label) ==
    /\ pc' = [pc EXCEPT ![t] = label]
    /\ hist' = [hist EXCEPT ![t] = h]
    /\ loc' = [loc EXCEPT ![t] = lc]
    /\ disk' = dk
    /\ UNCHANGED <<user_processing, guardLog>>

\* bot.py:648-650: compression did not yield a sendable file.
FallThroughToDocument(t, h, lc, dk, why) ==
    SvsGoto(t, Say(h, "as_document"), [lc EXCEPT !.cres = why], dk, "svs_docmsg")

\* bot.py:783-793 then 598-663: the "Sending" edit returns and
\* send_video_smart runs to its first await.
SendVideoSmartEntry(t) ==
    /\ pc[t] = "url_sendmsg"
    /\ \E ok \in TgOutcomes :
        /\ CountFault(ok)
        /\ LET fp == loc[t].filepath
               h == hist[t]
               lc == loc[t]
           IN  IF ~ok
               THEN UrlExcept(t, h, disk) /\ UNCHANGED loc
               ELSE IF ~Exists(disk, fp)
               THEN SvsGoto(t, Say(h, "notfound"), lc, disk, "svs_notfound")
               ELSE LET file_size == disk[fp]
                        class == DeliveryClass(file_size)
                        lc1 == [lc EXCEPT !.file_size = file_size]
                        h1 == [h EXCEPT !.plan = class]
                    IN  CASE class = "direct" ->
                               SvsGoto(t, Attempt(h1, "video", fp, file_size), lc1, disk,
                                       "svs_direct")
                          [] class = "compress" ->
                               SvsGoto(t, Say(h1, "compressing"), lc1, disk, "svs_cmsg")
                          [] class = "split" ->
                               SvsGoto(t, Say(h1, "splitting"), lc1, disk, "svs_smsg")
    /\ UNCHANGED <<user_stats, nreq, active, tally>>

\* bot.py:599-600: the "File not found" reply is outside the try block.
SvsNotFoundReply(t) ==
    /\ pc[t] = "svs_notfound"
    /\ \E ok \in TgOutcomes :
        /\ CountFault(ok)
        /\ IF ok
           THEN SvsReturn(t, hist[t], loc[t], disk, FALSE)
           ELSE UrlExcept(t, hist[t], disk) /\ UNCHANGED loc
    /\ UNCHANGED <<user_stats, nreq, active, tally>>

\* bot.py:705-706: the error reply of the except block.
SvsErrorReply(t) ==
    /\ pc[t] = "svs_err"
    /\ \E ok \in TgOutcomes :
        /\ CountFault(ok)
        /\ IF ok
           THEN SvsReturn(t, hist[t], loc[t], disk, FALSE)
           ELSE UrlExcept(t, hist[t], disk) /\ UNCHANGED loc
    /\ UNCHANGED <<user_stats, nreq, active, tally>>

\* bot.py:611-618, 635-643 and 652-658: the send of the file itself, of the
\* compressed file (removed afterwards) or of the document returns.
SvsSendReply(t) ==
    /\ pc[t] \in {"svs_direct", "svs_csend", "svs_doc"}
    /\ \E ok \in TgOutcomes :
        /\ CountFault(ok)
        /\ LET cp == CompressedPath(loc[t].filepath)
           IN  IF ~ok
               THEN SvsExcept(t, hist[t], loc[t], disk)
               ELSE IF pc[t] = "svs_csend"
               THEN IF Exists(disk, cp)
                    THEN SvsReturn(t, Delivered(hist[t]), loc[t], RemoveFile(disk, cp), TRUE)
                    ELSE SvsExcept(t, Delivered(hist[t]), loc[t], disk)
               ELSE SvsReturn(t, Delivered(hist[t]), loc[t], disk, TRUE)
    /\ UNCHANGED <<user_stats, nreq, active, tally>>

\* bot.py:624-628 with compress_video 96-101 and get_video_duration 66-82:
\* the "compressing" reply returns and ffprobe is started.
CompressMsgReply(t) ==
    /\ pc[t] = "svs_cmsg"
    /\ \E ok \in TgOutcomes :
        /\ CountFault(ok)
        /\ IF ~ok
           THEN SvsExcept(t, hist[t], loc[t], disk)
           ELSE IF ~Exists(disk, loc[t].filepath)
           THEN FallThroughToDocument(t, hist[t], loc[t], disk, "failed")
           ELSE SvsGoto(t, hist[t], loc[t], disk, "cv_probe")
    /\ UNCHANGED <<user_stats, nreq, active, tally>>

\* compress_video, bot.py:101-130: the probed duration; 0 ends the
\* compression, anything else starts the encoder.
CompressProbe(t) ==
    /\ pc[t] = "cv_probe"
    /\ \E d \in CompressDurations :
        IF d = 0
        THEN FallThroughToDocument(t, hist[t], [loc[t] EXCEPT !.duration = d], disk, "failed")
        ELSE SvsGoto(t, [hist[t] EXCEPT !.encRuns = @ + 1],
                     [loc[t] EXCEPT !.duration = d], disk, "cv_enc")
    /\ UNCHANGED <<user_stats, nreq, faults, active, tally>>

\* compress_video, bot.py:130-138, then send_video_smart 628-650: the
\* encoder exits with a status, having written an output file or not.
CompressEncoded(t) ==
    /\ pc[t] = "cv_enc"
    /\ \E o \in EncoderOutcomes :
        LET cp == CompressedPath(loc[t].filepath)
            dk == IF o.out = -1 THEN disk ELSE WriteFile(disk, cp, o.out)
            success == o.rc = 0 /\ Exists(dk, cp)
        IN  IF ~success
            THEN FallThroughToDocument(t, hist[t], loc[t], dk, "failed")
            ELSE IF dk[cp] < TELEGRAM_VIDEO_LIMIT
            THEN SvsGoto(t, Attempt(hist[t], "video", cp, dk[cp]),
                         [loc[t] EXCEPT !.cres = "small"], dk, "svs_csend")
            ELSE FallThroughToDocument(t, hist[t], loc[t], RemoveFile(dk, cp), "large")
    /\ UNCHANGED <<user_stats, nreq, faults, active, tally>>

\* bot.py:650-657: the "Sending as document" reply returns and the original
\* is opened for reply_document.
DocumentMsgReply(t) ==
    /\ pc[t] = "svs_docmsg"
    /\ \E ok \in TgOutcomes :
        /\ CountFault(ok)
        /\ LET fp == loc[t].filepath
           IN  IF ~ok \/ ~Exists(disk, fp)
               THEN SvsExcept(t, hist[t], loc[t], disk)
               ELSE SvsGoto(t, Attempt(hist[t], "document", fp, disk[fp]), loc[t], disk,
                            "svs_doc")
    /\ UNCHANGED <<user_stats, nreq, active, tally>>

----------------------------------------------------------------------------
\* split_video (bot.py:143-192) and the chunk loop of send_video_smart.

\* bot.py:153: num_parts = int(duration / chunk_duration) + 1.
NumPartsCeil(duration, chunk_duration) ==
    (duration + chunk_duration - 1) \div chunk_duration

NumParts(duration, chunk_duration) == (duration \div chunk_duration) + 1

\* bot.py:158: slice i of the loop (from 0) starts at i * chunk_duration.
SliceStart(i, chunk_duration) == i * chunk_duration

\* bot.py:666-668: no chunks, the "Failed to split" reply is awaited.
SplitFailedReturnsTrue(t, h, lc, dk) ==
    SvsReturn(t, Say(h, "split_failed"), [lc EXCEPT !.split = "empty"], dk, TRUE)

SplitFailed(t, h, lc, dk) ==
    SvsGoto(t, Say(h, "split_failed"), [lc EXCEPT !.split = "empty"], dk, "svs_splitfail")

\* bot.py:671-695: chunk k is measured, opened and sent by its size.
StartChunkSend(t, h, lc, dk) ==
    LET chunk == lc.chunks[lc.k]
    IN  IF ~Exists(dk, chunk[1])
        THEN SvsExcept(t, h, lc, dk)
        ELSE SvsGoto(t,
                     Attempt(h, IF dk[chunk[1]] < TELEGRAM_VIDEO_LIMIT
                                THEN "video" ELSE "document", chunk[1], dk[chunk[1]]),
                     lc, dk, "svs_chunk")

\* bot.py:663-664 with split_video 145-147: the "splitting" reply returns
\* and the duration probe is started.
SplitMsgReply(t) ==
    /\ pc[t] = "svs_smsg"
    /\ \E ok \in TgOutcomes :
        /\ CountFault(ok)
        /\ IF ~ok
           THEN SvsExcept(t, hist[t], loc[t], disk)
           ELSE IF ~Exists(disk, loc[t].filepath)
           THEN SplitFailed(t, hist[t], loc[t], disk)
           ELSE SvsGoto(t, hist[t], loc[t], disk, "sv_probe")
    /\ UNCHANGED <<user_stats, nreq, active, tally>>

\* split_video, bot.py:146-177: the probed duration, then the first slice.
SplitProbe(t) ==
    /\ pc[t] = "sv_probe"
    /\ \E d \in SplitDurations :
        IF d = 0
        THEN SplitFailed(t, hist[t], [loc[t] EXCEPT !.duration = d], disk)
        ELSE SvsGoto(t, [hist[t] EXCEPT !.sliceRuns = @ + 1],
                     [loc[t] EXCEPT !.duration = d, !.i = 0,
                                    !.num_parts = NumParts(d, SplitChunkDuration)],
                     disk, "sv_slice")
    /\ UNCHANGED <<user_stats, nreq, faults, active, tally>>

\* split_video, bot.py:177-189: slice i has run; its chunk is kept when the
\* exit status is 0 and the file is non-empty; then the next slice is
\* started, or the chunks are returned to send_video_smart (666-676).
SplitSlice(t) ==
    /\ pc[t] = "sv_slice"
    /\ \E o \in SliceOutcomes :
        LET lc == loc[t]
            cp == ChunkPath(lc.filepath, lc.i + 1)
            dk1 == IF o.out = -1 THEN disk ELSE WriteFile(disk, cp, o.out)
            made == o.rc = 0 /\ Exists(dk1, cp)
            keep == made /\ dk1[cp] > 0
            dk2 == IF made /\ ~keep THEN RemoveFile(dk1, cp) ELSE dk1
            lc1 == [lc EXCEPT !.i = @ + 1,
                              !.chunks = IF keep
                                         THEN Append(@, <<cp, lc.i + 1, lc.num_parts>>)
                                         ELSE @]
        IN  IF lc1.i < lc.num_parts
            THEN SvsGoto(t, [hist[t] EXCEPT !.sliceRuns = @ + 1], lc1, dk2, "sv_slice")
            ELSE IF lc1.chunks = <<>>
            THEN SplitFailed(t, hist[t], lc1, dk2)
            ELSE StartChunkSend(t, hist[t], [lc1 EXCEPT !.k = 1, !.split = "chunks"], dk2)
    /\ UNCHANGED <<user_stats, nreq, faults, active, tally>>

\* bot.py:667-668: the "Failed to split" reply returns; False is returned.
SplitFailedReply(t) ==
    /\ pc[t] = "svs_splitfail"
    /\ \E ok \in TgOutcomes :
        /\ CountFault(ok)
        /\ IF ok
           THEN SvsReturn(t, hist[t], loc[t], disk, FALSE)
           ELSE SvsExcept(t, hist[t], loc[t], disk)
    /\ UNCHANGED <<user_stats, nreq, active, tally>>

\* bot.py:678-701: the send of chunk k returns or raises (caught and
\* logged); the chunk file is removed; the next chunk follows, or True.
ChunkSendReply(t) ==
    /\ pc[t] = "svs_chunk"
    /\ \E ok \in TgOutcomes :
        /\ CountFault(ok)
        /\ LET lc == loc[t]
               h == IF ok THEN Delivered(hist[t]) ELSE hist[t]
               cp == lc.chunks[lc.k][1]
           IN  IF ~Exists(disk, cp)
               THEN SvsExcept(t, h, lc, disk)
               ELSE IF lc.k < Len(lc.chunks)
               THEN StartChunkSend(t, h, [lc EXCEPT !.k = @ + 1], RemoveFile(disk, cp))
               ELSE SvsReturn(t, h, lc, RemoveFile(disk, cp), TRUE)
    /\ UNCHANGED <<user_stats, nreq, active, tally>>

----------------------------------------------------------------------------
\* handle_video_file (bot.py:814-953).

VidFinallySourceOnly(t, h, dk, how) ==
    LET u == loc[t].user
    IN  /\ user_processing' = set_user_processing(user_processing, u, FALSE)
        /\ disk' = [p \in DOMAIN dk \ {loc[t].filepath} |-> dk[p]]
        /\ hist' = [hist EXCEPT ![t] = [h EXCEPT !.holding = FALSE, !.outcome = how]]
        /\ pc' = [pc EXCEPT ![t] = "idle"]
        /\ Log(u, "rel")
        /\ UNCHANGED loc

\* The finally block (bot.py:935-953): the flag is reset, the source file
\* and every file named video_{user_id}_* are removed.
VidFinally(t, h, dk, how) ==
    LET u == loc[t].user
    IN  /\ user_processing' = set_user_processing(user_processing, u, FALSE)
        /\ disk' = [p \in {q \in DOMAIN dk : ~OwnedBy(u, q)} |-> dk[p]]
        /\ hist' = [hist EXCEPT ![t] = [h EXCEPT !.holding = FALSE, !.outcome = how]]
        /\ pc' = [pc EXCEPT ![t] = "idle"]
        /\ Log(u, "rel")
        /\ UNCHANGED loc

\* The except block (bot.py:931-933) awaits status_msg.edit_text.
VidExcept(t, h, lc, dk) ==
    /\ pc' = [pc EXCEPT ![t] = "vid_except"]
    /\ hist' = [hist EXCEPT ![t] = Say(h, "error")]
    /\ loc' = [loc EXCEPT ![t] = lc]
    /\ disk' = dk
    /\ UNCHANGED <<user_processing, guardLog>>

VidGoto(t, h, lc, dk, label) ==
    /\ pc' = [pc EXCEPT ![t] = label]
    /\ hist' = [hist EXCEPT ![t] = h]
    /\ loc' = [loc EXCEPT ![t] = lc]
    /\ disk' = dk
    /\ UNCHANGED <<user_processing, guardLog>>

\* bot.py:816-851: a video update arrives; the guard check, the flag, the
\* validation of the file and the first reply.  The update filters
\* (bot.py:1084-1085) only pass messages that carry a video.
handle_video_file(t) ==
    /\ pc[t] = "idle"
    /\ t \in active
    /\ nreq < MaxRequests
    /\ \E u \in UsersOf(t), meta \in {"video", "notvideo", "toolarge"} :
        /\ loc' = [loc EXCEPT ![t] = [InitLoc EXCEPT !.user = u, !.kind = "video"]]
        /\ nreq' = IF is_user_processing(u) THEN nreq ELSE nreq + 1
        /\ IF is_user_processing(u)
           THEN Refuse(t, u)
           ELSE /\ user_processing' = set_user_processing(user_processing, u, TRUE)
                /\ Log(u, "acq")
                /\ pc' = [pc EXCEPT ![t] = IF meta = "video" THEN "vid_status"
                                                             ELSE "vid_reject"]
                /\ hist' = [hist EXCEPT ![t] =
                               [Say(InitHist, CASE meta = "video" -> "tg_downloading"
                                         [] meta = "notvideo" -> "rej_notvideo"
                                         [] meta = "toolarge" -> "rej_toolarge")
                                EXCEPT !.holding = TRUE]]
    /\ UNCHANGED <<user_stats, disk, faults, active, tally>>

\* bot.py:841-843 and 847-849: the rejection reply returns, then the flag is
\* reset; when the reply raises the reset is never reached.
VidRejectReply(t) ==
    /\ pc[t] = "vid_reject"
    /\ \E ok \in TgOutcomes :
        /\ CountFault(ok)
        /\ IF ok
           THEN /\ user_processing' = set_user_processing(user_processing, loc[t].user, FALSE)
                /\ Log(loc[t].user, "rel")
                /\ hist' = [hist EXCEPT ![t].holding = FALSE, ![t].outcome = "returned"]
                /\ pc' = [pc EXCEPT ![t] = "idle"]
                /\ UNCHANGED <<loc, user_stats, disk>>
           ELSE Escapes(t)
    /\ UNCHANGED <<nreq, active, tally>>

\* bot.py:851-862: the status reply returns (outside the try block), the
\* file name is chosen and video.get_file() is awaited.
VidStatusReply(t) ==
    /\ pc[t] = "vid_status"
    /\ \E ok \in TgOutcomes :
        /\ CountFault(ok)
        /\ IF ok
           THEN /\ VidGoto(t, hist[t],
                           [loc[t] EXCEPT !.filepath = UploadPath(loc[t].user)],
                           disk, "vid_getfile")
                /\ UNCHANGED user_stats
           ELSE Escapes(t)
    /\ UNCHANGED <<nreq, active, tally>>

\* bot.py:862-863: get_file returns, download_to_drive is awaited.
VidGetFile(t) ==
    /\ pc[t] = "vid_getfile"
    /\ \E ok \in TgOutcomes :
        /\ CountFault(ok)
        /\ IF ok
           THEN VidGoto(t, hist[t], loc[t], disk, "vid_dl")
           ELSE VidExcept(t, hist[t], loc[t], disk)
    /\ UNCHANGED <<user_stats, nreq, active, tally>>

\* bot.py:863-871: the download from Telegram returns with a file of some
\* size (0: nothing usable) and length, or raises.
VidDownload(t) ==
    /\ pc[t] = "vid_dl"
    /\ \E ok \in TgOutcomes, size \in UploadSizes, d \in ClipDurations :
        /\ CountFault(ok)
        /\ LET dk == WriteFile(disk, loc[t].filepath, size)
               lc == [loc[t] EXCEPT !.file_size = size,
                                    !.length = IF ok /\ size > 0 THEN d ELSE -1]
           IN  IF ~ok
               THEN VidExcept(t, hist[t], lc, dk)
               ELSE IF size = 0
               THEN VidGoto(t, Say(hist[t], "tg_dlfail"), lc, dk, "vid_final")
               ELSE VidGoto(t, Say(hist[t], "downloaded"), lc, dk, "vid_dlmsg")
    /\ tally' = IF pc'[t] = "vid_dlmsg" THEN Tallied(tally, loc[t].user, "received")
                ELSE tally
    /\ UNCHANGED <<user_stats, nreq, active>>

----------------------------------------------------------------------------
\* The clip samplers (bot.py:259-589).  handle_video_file calls them with
\* num_clips = 3 and clip_duration = 5 (bot.py:879-887).  Durations are
\* multiples of 0.2 s, so that the offsets below are exact.

\* get_video_duration (bot.py:64-92): the duration of an existing file, or 0
\* when the file is missing or ffprobe fails.
get_video_duration(dk, path, length) == IF Exists(dk, path) THEN {0, length} ELSE {0}

Max(a, b) == IF a >= b THEN a ELSE b

Min(a, b) == IF a <= b THEN a ELSE b

MinDurationNoGuard(num_clips, clip_duration) == clip_duration * num_clips

\* generate_clips, bot.py:279: min_duration = clip_duration * num_clips + 10.
MinDuration(num_clips, clip_duration) == clip_duration * num_clips + 10 * 100

\* generate_clips, bot.py:290-308: the positions, cut to num_clips.
ClipPositionsEndFirst(duration, num_clips, clip_duration) ==
    SubSeq(<<[start |-> (duration * 9) \div 20, label |-> "End"],
             [start |-> Max(3 * 100, duration \div 20), label |-> "Beginning"],
             [start |-> (duration * 9) \div 20, label |-> "Middle"]>>,
           1, Min(num_clips, 3))

ClipPositions(duration, num_clips, clip_duration) ==
    LET all == IF duration > 30 * 100
               THEN <<[start |-> Max(3 * 100, duration \div 20), label |-> "Beginning"],
                      [start |-> (duration * 9) \div 20, label |-> "Middle"],
                      [start |-> Max((duration * 9) \div 10,
                                     duration - clip_duration - 5 * 100),
                       label |-> "End"]>>
               ELSE <<[start |-> 5 * 100, label |-> "Beginning"],
                      [start |-> Max(10 * 100, duration \div 2), label |-> "Middle"],
                      [start |-> Max(15 * 100, duration - clip_duration - 3 * 100),
                       label |-> "End"]>>
    IN  SubSeq(all, 1, Min(num_clips, Len(all)))

\* generate_clips_simple, bot.py:502-509.
SimplePositions(duration, num_clips, clip_duration) ==
    LET all == <<[start |-> Max(3 * 100, duration \div 10), label |-> "Beginning"],
                 [start |-> duration \div 2, label |-> "Middle"],
                 [start |-> Max((duration * 17) \div 20,
                                duration - clip_duration - 3 * 100),
                  label |-> "End"]>>
    IN  SubSeq(all, 1, Min(num_clips, Len(all)))

\* generate_clips_fallback, bot.py:549-560: each trim starts 2.5 s before
\* its target time.
FallbackPositions(duration, num_clips, clip_duration) ==
    LET all == <<[start |-> (duration \div 10) - 250, label |-> "Beginning"],
                 [start |-> (duration \div 2) - 250, label |-> "Middle"],
                 [start |-> ((duration * 9) \div 10) - 250, label |-> "End"]>>
    IN  SubSeq(all, 1, Min(num_clips, Len(all)))

\* generate_clips, bot.py:312-318: the next position after i whose clip does
\* not exceed the duration (Len + 1: none).
NextInRange(positions, i, duration, clip_duration) ==
    LET ok == {j \in (i + 1) .. Len(positions) :
                  positions[j].start + clip_duration <= duration}
    IN  IF ok = {} THEN Len(positions) + 1
        ELSE CHOOSE j \in ok : \A j2 \in ok : j <= j2

\* An encoder trim is started by a sampler at a start offset.
Trim(h, by, position, duration) ==
    [h EXCEPT !.trims = Append(@, [by |-> by, start |-> position.start,
                                    duration |-> duration])]

\* The tuple a sampler appends for clip i of total; start is its offset.
Clip(src, position, i, total) ==
    [path |-> ClipPath(src, i), label |-> position.label, num |-> i, total |-> total,
     start |-> position.start]

\* A sampler call of handle_video_file has returned (bot.py:879-900):
\* without clips the first call leads to the "Trying alternative" edit and
\* the second one to the "Failed to generate clips" edit.
ClipsReturned(t, h, lc, dk) ==
    IF lc.clips # <<>>
    THEN VidGoto(t, Say(h, "generated"), lc, dk, "vid_genmsg")
    ELSE IF lc.stage = "first"
    THEN VidGoto(t, Say(h, "trying_fallback"), lc, dk, "vid_fbmsg")
    ELSE VidGoto(t, Say(h, "clips_failed"), lc, dk, "vid_final")

\* generate_clips up to its duration probe (bot.py:261-271).
generate_clips(t, h, lc, dk) ==
    LET lc1 == [lc EXCEPT !.sampler = "std", !.src = lc.filepath, !.stage = "first",
                          !.clips = <<>>, !.i = 0]
    IN  IF ~Exists(dk, lc.filepath)
        THEN ClipsReturned(t, h, [lc1 EXCEPT !.duration = -1], dk)
        ELSE VidGoto(t, h, lc1, dk, "gc_probe")

\* generate_clips_fallback up to its duration probe (bot.py:540-541).
generate_clips_fallback(t, h, lc, dk, stage) ==
    VidGoto(t, h, [lc EXCEPT !.sampler = "fb", !.src = lc.filepath, !.stage = stage,
                             !.clips = <<>>, !.i = 0], dk, "fb_probe")

\* generate_clips_alternative up to the proxy encoder (bot.py:442-471).
generate_clips_alternative(t, h, lc, dk) ==
    LET lc1 == [lc EXCEPT !.sampler = "alt", !.src = lc.filepath, !.stage = "first",
                          !.clips = <<>>, !.i = 0]
    IN  IF ~Exists(dk, lc.filepath)
        THEN ClipsReturned(t, h, [lc1 EXCEPT !.duration = -1], dk)
        ELSE VidGoto(t, h, lc1, dk, "alt_proxy")

\* After position i of generate_clips: the next trim, or the return (434).
StdAdvance(t, h, lc, dk) ==
    LET j == NextInRange(lc.positions, lc.i, lc.duration, ClipDuration)
    IN  IF j > Len(lc.positions)
        THEN ClipsReturned(t, h, lc, dk)
        ELSE VidGoto(t, Trim(h, "std", lc.positions[j], lc.duration),
                     [lc EXCEPT !.i = j], dk, "gc_trim")

\* After position i of generate_clips_simple: the next trim, or the return
\* to generate_clips_alternative, which removes the proxy (bot.py:478-486).
SimpleAdvance(t, h, lc, dk) ==
    IF lc.i + 1 > Len(lc.positions)
    THEN ClipsReturned(t, h, lc, IF Exists(dk, lc.src) THEN RemoveFile(dk, lc.src) ELSE dk)
    ELSE VidGoto(t, Trim(h, "simple", lc.positions[lc.i + 1], lc.duration),
                 [lc EXCEPT !.i = @ + 1], dk, "simple_trim")

\* After position i of generate_clips_fallback (bot.py:549-586).
FbAdvance(t, h, lc, dk) ==
    IF lc.i + 1 > Len(lc.positions)
    THEN ClipsReturned(t, h, lc, dk)
    ELSE VidGoto(t, Trim(h, "fb", lc.positions[lc.i + 1], lc.duration),
                 [lc EXCEPT !.i = @ + 1], dk, "fb_trim")

\* What a trim leaves on disk: the clip file of size out (-1: none).
Trimmed(dk, path, o) == IF o.out = -1 THEN dk ELSE WriteFile(dk, path, o.out)

Unlink(dk, path) == IF Exists(dk, path) THEN RemoveFile(dk, path) ELSE dk

\* bot.py:871-882: the "Downloaded" edit returns, the counter is updated
\* and the sampler is chosen by the size of the file.
VidDownloadedMsg(t) ==
    /\ pc[t] = "vid_dlmsg"
    /\ \E ok \in TgOutcomes :
        /\ CountFault(ok)
        /\ IF ~ok
           THEN VidExcept(t, hist[t], loc[t], disk) /\ UNCHANGED user_stats
           ELSE /\ user_stats' = update_stats(user_stats, loc[t].user, "clips")
                /\ IF loc[t].file_size > 50 * 1024 * 1024
                   THEN VidGoto(t, Say(hist[t], "large_file"), loc[t], disk, "vid_largemsg")
                   ELSE generate_clips(t, hist[t], loc[t], disk)
    /\ UNCHANGED <<nreq, active, tally>>

\* bot.py:878-879: the "Large file" edit returns.
VidLargeMsg(t) ==
    /\ pc[t] = "vid_largemsg"
    /\ \E ok \in TgOutcomes :
        /\ CountFault(ok)
        /\ IF ok
           THEN generate_clips_alternative(t, hist[t], loc[t], disk)
           ELSE VidExcept(t, hist[t], loc[t], disk)
    /\ UNCHANGED <<user_stats, nreq, active, tally>>

\* bot.py:900-920: clip k is checked, opened and sent; a missing or tiny
\* clip is skipped.  After the last clip the summary edit is awaited.
RECURSIVE StartClipSend(_, _, _, _)
StartClipSend(t, h, lc, dk) ==
    IF lc.k > Len(lc.clips)
    THEN VidGoto(t, Say(h, IF h.delivered > 0 THEN "clips_sent" ELSE "clips_unsent"),
                 lc, dk, "vid_final")
    ELSE IF ~Exists(dk, lc.clips[lc.k].path) \/ dk[lc.clips[lc.k].path] < 1024
    THEN StartClipSend(t, h, [lc EXCEPT !.k = @ + 1], dk)
    ELSE VidGoto(t, Attempt(h, "video", lc.clips[lc.k].path, dk[lc.clips[lc.k].path]),
                 lc, dk, "vid_clip")

\* generate_clips, bot.py:271-320: the probed duration; 0 or less than
\* min_duration returns []; otherwise the positions are computed and the
\* first trim that fits is started.
GenClipsProbe(t) ==
    /\ pc[t] = "gc_probe"
    /\ \E d \in get_video_duration(disk, loc[t].src, loc[t].length) :
        LET lc == [loc[t] EXCEPT !.duration = d]
        IN  IF d = 0 \/ d < MinDuration(NumClips, ClipDuration)
            THEN ClipsReturned(t, hist[t], lc, disk)
            ELSE StdAdvance(t, hist[t],
                            [lc EXCEPT !.positions = ClipPositions(d, NumClips, ClipDuration)],
                            disk)
    /\ UNCHANGED <<user_stats, nreq, faults, active, tally>>

\* The trim of position i ended with exit status 0.
Encoded(h, i, rc) == IF rc = 0 THEN [h EXCEPT !.encoded = @ \cup {i}] ELSE h

\* The verification probe of clip i exited with 0.
Passed(h, i) == [h EXCEPT !.passed = @ \cup {i}]

\* The trim of position i was stopped after its timeout.
TimedOut(h, i) == [h EXCEPT !.timeouts = @ \cup {i}]

\* A timeout branch that leaves the partial clip on disk.
TrimTimedOutKeepsOutput(t, h, lc, dk) ==
    StdAdvance(t, TimedOut(h, lc.i), lc, dk)

\* generate_clips, bot.py:373-384: after the timeout the process has been
\* terminated or killed; what it wrote is removed and the loop continues.
TrimTimedOut(t, h, lc, dk) ==
    StdAdvance(t, TimedOut(h, lc.i), lc, Unlink(dk, ClipPath(lc.src, lc.i)))

\* generate_clips, bot.py:360-431: the trim of position i has run, or was
\* stopped after its timeout.  A clip over 50KB is appended and verified;
\* anything else is removed.
GenClipsTrim(t) ==
    /\ pc[t] = "gc_trim"
    /\ \/ \E o \in TrimOutcomes :
            LET lc == loc[t]
                cp == ClipPath(lc.src, lc.i)
                dk == Trimmed(disk, cp, o)
            IN  IF o.rc = 0 /\ Exists(dk, cp) /\ dk[cp] > 50 * 1024
                THEN VidGoto(t, Encoded(hist[t], lc.i, o.rc),
                             [lc EXCEPT !.clips = Append(@, Clip(lc.src, lc.positions[lc.i],
                                                                 lc.i, Len(lc.positions)))],
                             dk, "gc_verify")
                ELSE StdAdvance(t, Encoded(hist[t], lc.i, o.rc), lc, Unlink(dk, cp))
       \/ \E o \in TrimTimeouts :
            TrimTimedOut(t, hist[t], loc[t],
                         Trimmed(disk, ClipPath(loc[t].src, loc[t].i), o))
    /\ UNCHANGED <<user_stats, nreq, faults, active, tally>>

\* generate_clips, bot.py:406-417 and 428-431: ffprobe has read the new
\* clip; a clip it rejects is popped and removed.  When the probe raises,
\* the except block removes the file and the loop goes on: the tuple
\* appended at 392 stays in the list.
GenClipsVerify(t) ==
    /\ pc[t] = "gc_verify"
    /\ \E v \in VerifyOutcomes :
        LET lc == loc[t]
            cp == ClipPath(lc.src, lc.i)
        IN  CASE v = "passed" -> StdAdvance(t, Passed(hist[t], lc.i), lc, disk)
              [] v = "rejected" ->
                     StdAdvance(t, hist[t],
                                [lc EXCEPT !.clips = SubSeq(@, 1, Len(@) - 1)],
                                Unlink(disk, cp))
              [] v = "raised" -> StdAdvance(t, hist[t], lc, Unlink(disk, cp))
    /\ UNCHANGED <<user_stats, nreq, faults, active, tally>>

\* generate_clips_alternative, bot.py:471-478: the proxy encoder has run;
\* without a proxy generate_clips_fallback is called on the source,
\* otherwise generate_clips_simple probes the proxy (495).
AltProxy(t) ==
    /\ pc[t] = "alt_proxy"
    /\ \E o \in ProxyOutcomes :
        LET lc == loc[t]
            pp == ProxyPath(lc.filepath)
            dk == Trimmed(disk, pp, o)
        IN  IF o.rc # 0 \/ ~Exists(dk, pp)
            THEN generate_clips_fallback(t, hist[t], lc, dk, "first")
            ELSE VidGoto(t, hist[t], [lc EXCEPT !.sampler = "simple", !.src = pp], dk,
                         "simple_probe")
    /\ UNCHANGED <<user_stats, nreq, faults, active, tally>>

\* generate_clips_simple, bot.py:495-523: the probed duration of the proxy;
\* 0 returns [], otherwise the first trim is started.
SimpleProbe(t) ==
    /\ pc[t] = "simple_probe"
    /\ \E d \in get_video_duration(disk, loc[t].src, loc[t].length) :
        LET lc == [loc[t] EXCEPT !.duration = d]
        IN  IF d = 0
            THEN ClipsReturned(t, hist[t], lc, Unlink(disk, lc.src))
            ELSE SimpleAdvance(t, hist[t],
                               [lc EXCEPT !.positions =
                                              SimplePositions(d, NumClips, ClipDuration)],
                               disk)
    /\ UNCHANGED <<user_stats, nreq, faults, active, tally>>

\* generate_clips_simple, bot.py:523-533: the trim of position i has run.
SimpleTrim(t) ==
    /\ pc[t] = "simple_trim"
    /\ \E o \in TrimOutcomes :
        LET lc == loc[t]
            cp == ClipPath(lc.src, lc.i)
            dk == Trimmed(disk, cp, o)
        IN  IF o.rc = 0 /\ Exists(dk, cp)
            THEN SimpleAdvance(t, hist[t],
                               [lc EXCEPT !.clips = Append(@, Clip(lc.src, lc.positions[lc.i],
                                                                   lc.i, Len(lc.positions)))],
                               dk)
            ELSE SimpleAdvance(t, hist[t], lc, dk)
    /\ UNCHANGED <<user_stats, nreq, faults, active, tally>>

\* generate_clips_fallback, bot.py:541-573: the probed duration; 0 returns
\* [], otherwise the first trim is started.
FbProbe(t) ==
    /\ pc[t] = "fb_probe"
    /\ \E d \in get_video_duration(disk, loc[t].src, loc[t].length) :
        LET lc == [loc[t] EXCEPT !.duration = d]
        IN  IF d = 0
            THEN ClipsReturned(t, hist[t], lc, disk)
            ELSE FbAdvance(t, hist[t],
                           [lc EXCEPT !.positions =
                                          FallbackPositions(d, NumClips, ClipDuration)],
                           disk)
    /\ UNCHANGED <<user_stats, nreq, faults, active, tally>>

\* generate_clips_fallback, bot.py:573-586: the trim of position i has run;
\* a clip over 10KB is appended, a smaller one is removed.
FbTrim(t) ==
    /\ pc[t] = "fb_trim"
    /\ \E o \in TrimOutcomes :
        LET lc == loc[t]
            cp == ClipPath(lc.src, lc.i)
            dk == Trimmed(disk, cp, o)
        IN  IF o.rc = 0 /\ Exists(dk, cp)
            THEN IF dk[cp] > 10240
                 THEN FbAdvance(t, hist[t],
                                [lc EXCEPT !.clips = Append(@, Clip(lc.src, lc.positions[lc.i],
                                                                    lc.i, NumClips))],
                                dk)
                 ELSE FbAdvance(t, hist[t], lc, RemoveFile(dk, cp))
            ELSE FbAdvance(t, hist[t], lc, dk)
    /\ UNCHANGED <<user_stats, nreq, faults, active, tally>>

\* bot.py:886-887: the "Trying alternative" edit returns.
VidFallbackMsg(t) ==
    /\ pc[t] = "vid_fbmsg"
    /\ \E ok \in TgOutcomes :
        /\ CountFault(ok)
        /\ IF ok
           THEN generate_clips_fallback(t, hist[t], loc[t], disk, "second")
           ELSE VidExcept(t, hist[t], loc[t], disk)
    /\ UNCHANGED <<user_stats, nreq, active, tally>>

\* bot.py:900-913: the "Generated n clips" edit returns; the send loop starts.
VidGeneratedMsg(t) ==
    /\ pc[t] = "vid_genmsg"
    /\ \E ok \in TgOutcomes :
        /\ CountFault(ok)
        /\ IF ok
           THEN StartClipSend(t, hist[t], [loc[t] EXCEPT !.k = 1], disk)
           ELSE VidExcept(t, hist[t], loc[t], disk)
    /\ UNCHANGED <<user_stats, nreq, active, tally>>

\* bot.py:914-929: the send of clip k returns or raises (caught, logged).
VidClipReply(t) ==
    /\ pc[t] = "vid_clip"
    /\ \E ok \in TgOutcomes :
        /\ CountFault(ok)
        /\ StartClipSend(t, IF ok THEN Delivered(hist[t]) ELSE hist[t],
                         [loc[t] EXCEPT !.k = @ + 1], disk)
    /\ UNCHANGED <<user_stats, nreq, active, tally>>

\* bot.py:867-868, 890-898, 926-929: a final status edit returns (then the
\* finally block) or raises (then the except block).
VidFinalStatus(t) ==
    /\ pc[t] = "vid_final"
    /\ \E ok \in TgOutcomes :
        /\ CountFault(ok)
        /\ IF ok
           THEN VidFinally(t, hist[t], disk, "returned")
           ELSE VidExcept(t, hist[t], loc[t], disk)
    /\ UNCHANGED <<user_stats, nreq, active, tally>>

\* bot.py:933-953: the edit of the except block returns or raises; the
\* finally block runs in both cases.
VidExceptReply(t) ==
    /\ pc[t] = "vid_except"
    /\ \E ok \in TgOutcomes :
        /\ CountFault(ok)
        /\ VidFinally(t, hist[t], disk, IF ok THEN "returned" ELSE "raised")
    /\ UNCHANGED <<user_stats, nreq, active, tally>>

----------------------------------------------------------------------------
Next ==
    \E t \in Tasks :
        \/ fallback_message(t)
        \/ handle_video_file(t)
        \/ PlainReply(t)
        \/ UrlStatusReply(t)
        \/ UrlDownloadMsg(t)
        \/ DownloadResponse(t)
        \/ DownloadStream(t)
        \/ SendVideoSmartEntry(t)
        \/ SvsNotFoundReply(t)
        \/ SvsErrorReply(t)
        \/ SvsSendReply(t)
        \/ CompressMsgReply(t)
        \/ CompressProbe(t)
        \/ CompressEncoded(t)
        \/ DocumentMsgReply(t)
        \/ SplitMsgReply(t)
        \/ SplitProbe(t)
        \/ SplitSlice(t)
        \/ SplitFailedReply(t)
        \/ ChunkSendReply(t)
        \/ UrlFinalStatus(t)
        \/ UrlExceptReply(t)
        \/ VidRejectReply(t)
        \/ VidStatusReply(t)
        \/ VidGetFile(t)
        \/ VidDownload(t)
        \/ VidDownloadedMsg(t)
        \/ VidLargeMsg(t)
        \/ GenClipsProbe(t)
        \/ GenClipsTrim(t)
        \/ GenClipsVerify(t)
        \/ AltProxy(t)
        \/ SimpleProbe(t)
        \/ SimpleTrim(t)
        \/ FbProbe(t)
        \/ FbTrim(t)
        \/ VidFallbackMsg(t)
        \/ VidGeneratedMsg(t)
        \/ VidClipReply(t)
        \/ VidFinalStatus(t)
        \/ VidExceptReply(t)

Spec == Init /\ [][Next]_vars

\* The steps that resume after a call bounded in time: the Telegram and
\* yt-dlp calls time out in their clients (bot.py:200), the HTTP download
\* has a total timeout (bot.py:227), and the trim of generate_clips is
\* awaited through asyncio.wait_for (bot.py:369-380).  The other encoder and
\* probe runs are awaited by proc.communicate() alone (bot.py:82, 130, 177,
\* 411, 471, 528, 578): nothing makes them return.
Bounded(t) ==
    \/ PlainReply(t)
    \/ UrlStatusReply(t)
    \/ UrlDownloadMsg(t)
    \/ DownloadResponse(t)
    \/ DownloadStream(t)
    \/ SendVideoSmartEntry(t)
    \/ SvsNotFoundReply(t)
    \/ SvsErrorReply(t)
    \/ SvsSendReply(t)
    \/ CompressMsgReply(t)
    \/ DocumentMsgReply(t)
    \/ SplitMsgReply(t)
    \/ SplitFailedReply(t)
    \/ ChunkSendReply(t)
    \/ UrlFinalStatus(t)
    \/ UrlExceptReply(t)
    \/ VidRejectReply(t)
    \/ VidStatusReply(t)
    \/ VidGetFile(t)
    \/ VidDownload(t)
    \/ VidDownloadedMsg(t)
    \/ VidLargeMsg(t)
    \/ GenClipsTrim(t)
    \/ VidFallbackMsg(t)
    \/ VidGeneratedMsg(t)
    \/ VidClipReply(t)
    \/ VidFinalStatus(t)
    \/ VidExceptReply(t)

\* The event loop resumes a handler whose awaited call has returned.
FairSpec == Init /\ [][Next]_vars /\ \A t \in Tasks : WF_vars(Bounded(t))

----------------------------------------------------------------------------
\* Vocabulary of the properties.

\* The handler run in slot t is over (it returned, or an exception left it).
Ended(t) == pc[t] = "idle" /\ hist[t].outcome # "none"

\* The runs that have set the flag of user u and not reset it.
Holders(u) == {t \in Tasks : hist[t].holding /\ loc[t].user = u}

FlagSet(u) == u \in DOMAIN user_processing /\ user_processing[u]

\* This step is a step of the handler in slot t.
StepOf(t) == pc'[t] # pc[t] \/ hist'[t] # hist[t] \/ loc'[t] # loc[t]

----------------------------------------------------------------------------
\* C1: under any interleaving of handlers, each requester has at most one
\* run between its set_user_processing(id, True) and its
\* set_user_processing(id, False), and while a run is there the flag is set.
C1_MutualExclusion ==
    \A u \in Users :
        /\ Cardinality(Holders(u)) <= 1
        /\ Holders(u) # {} => FlagSet(u)

\* Two handlers of one requester are suspended at once: one holds the flag
\* in the middle of its pipeline, the other has been refused.
C1_Witness ==
    \E t1 \in Tasks, t2 \in Tasks :
        /\ t1 # t2
        /\ loc[t1].user = loc[t2].user
        /\ hist[t1].holding
        /\ pc[t1] \in {"dl_stream", "cv_enc", "gc_trim"}
        /\ pc[t2] = "busy_reply"

\* C2 (as stated): every run that set the flag has removed it when the run
\* is over, on every exit path.
C2_FlagRemovedAtEnd == \A t \in Tasks : Ended(t) => ~hist[t].holding

\* C3: per requester, an attempt made while the flag is not held succeeds
\* (the first one, and any one after a release) and an attempt made while
\* it is held is refused: in the guard events of a requester an acquisition
\* comes first or right after a release, a refusal or a release comes only
\* after an acquisition or a refusal, and the flag is set exactly when the
\* last event is not a release.
C3_AcquireRefuseRelease ==
    \A u \in Users :
        LET g == guardLog[u]
        IN  /\ (g # <<>> /\ Len(g) < 4) => g[1] = "acq"
            /\ \A j \in 1 .. Len(g) - 1 :
                   /\ g[j + 1] = "acq" => g[j] = "rel"
                   /\ g[j + 1] \in {"ref", "rel"} => g[j] \in {"acq", "ref"}
            /\ FlagSet(u) <=> (g # <<>> /\ g[Len(g)] # "rel")

\* Scenario E: acquired, refused while held, released, acquired again.
C3_Witness == guardLog["u1"] = <<"acq", "ref", "rel", "acq">>

\* C4: an update of a requester whose flag is set is answered with the
\* "already processing" reply and does nothing else: the arrival leaves the
\* flag map, the counters and the disk as they are and only awaits that
\* reply, and the only step the handler takes afterwards ends it, again
\* with the flag map, the counters and the disk unchanged and with nothing
\* resolved, fetched, encoded or transmitted.
C4_RefusedStep ==
    \A t \in Tasks :
        /\ (pc[t] = "idle" /\ pc'[t] # "idle" /\ FlagSet(loc'[t].user)) =>
               /\ pc'[t] = "busy_reply"
               /\ hist'[t] = [InitHist EXCEPT !.msgs = {"busy"}]
               /\ user_processing' = user_processing
               /\ user_stats' = user_stats
               /\ disk' = disk
        /\ (pc[t] = "busy_reply" /\ StepOf(t)) =>
               /\ pc'[t] = "idle"
               /\ hist'[t] = [hist[t] EXCEPT !.outcome = hist'[t].outcome]
               /\ hist'[t].outcome \in {"returned", "raised"}
               /\ loc'[t] = loc[t]
               /\ user_processing' = user_processing
               /\ user_stats' = user_stats
               /\ disk' = disk

C4_BusyDoesNothingElse == [][C4_RefusedStep]_vars

\* A refused run is over while the run that holds the flag goes on.
C4_Witness ==
    \E t1 \in Tasks, t2 \in Tasks :
        /\ t1 # t2
        /\ loc[t1].user = loc[t2].user
        /\ hist[t1].holding /\ pc[t1] # "idle"
        /\ Ended(t2) /\ hist[t2].msgs = {"busy"} /\ hist[t2].sends = <<>>

----------------------------------------------------------------------------
\* C5: the delivery class is a function of the measured size alone: below
\* TELEGRAM_VIDEO_LIMIT the file is sent as it is, with no encoder and no
\* splitter run; from TELEGRAM_VIDEO_LIMIT to below TELEGRAM_DOCUMENT_LIMIT
\* it goes to compression; from TELEGRAM_DOCUMENT_LIMIT on it goes to
\* splitting.  A size equal to a limit belongs to the upper class.
C5_ClassBySize ==
    \A t \in Tasks :
        hist[t].plan # "none" =>
            LET size == loc[t].file_size
                h == hist[t]
            IN  /\ h.plan = "direct" <=> size < 50 * 1024 * 1024
                /\ h.plan = "compress" <=>
                       (50 * 1024 * 1024 <= size /\ size < 2000 * 1024 * 1024)
                /\ h.plan = "split" <=> size >= 2000 * 1024 * 1024
                /\ h.plan = "direct" =>
                       /\ h.encRuns = 0 /\ h.sliceRuns = 0
                       /\ h.sends = <<[kind |-> "video", path |-> loc[t].filepath,
                                       size |-> size]>>
                /\ h.plan = "compress" => ("compressing" \in h.msgs /\ h.sliceRuns = 0)
                /\ h.plan = "split" => ("splitting" \in h.msgs /\ h.encRuns = 0)

\* A file of exactly TELEGRAM_VIDEO_LIMIT bytes went to the encoder.
C5_Witness ==
    \E t \in Tasks :
        /\ Ended(t)
        /\ hist[t].plan = "compress"
        /\ loc[t].file_size = TELEGRAM_VIDEO_LIMIT
        /\ hist[t].encRuns = 1

\* C6: when the size is in [TELEGRAM_VIDEO_LIMIT, TELEGRAM_DOCUMENT_LIMIT)
\* and compression succeeds with an output below TELEGRAM_VIDEO_LIMIT, the
\* one artifact handed to Telegram is the compressed file, the original is
\* never handed to it, and when the request ends the original is no longer
\* on disk.
C6_CompressedStep ==
    \A t \in Tasks :
        /\ loc'[t].cres = "small" =>
               LET fp == loc'[t].filepath
                   sends == hist'[t].sends
               IN  /\ hist'[t].plan = "compress"
                   /\ hist'[t].encRuns = 1 /\ hist'[t].sliceRuns = 0
                   /\ Len(sends) = 1
                   /\ sends[1].kind = "video"
                   /\ sends[1].path = CompressedPath(fp)
                   /\ sends[1].path # fp
                   /\ sends[1].size < TELEGRAM_VIDEO_LIMIT
        /\ (loc[t].cres = "small" /\ pc[t] # "idle" /\ pc'[t] = "idle") =>
               /\ ~Exists(disk', loc[t].filepath)
               /\ ~hist'[t].holding

C6_OnlyCompressedSent == [][C6_CompressedStep]_vars

\* A request whose compressed file was delivered is over and its download
\* is gone.
C6_Witness ==
    \E t \in Tasks :
        /\ Ended(t)
        /\ loc[t].cres = "small"
        /\ hist[t].delivered = 1
        /\ "sent_ok" \in hist[t].msgs
        /\ ~Exists(disk, loc[t].filepath)

\* C7 (as stated): when compression fails or its output is not below
\* TELEGRAM_VIDEO_LIMIT, the original is sent exactly once as a document,
\* the encoder has run at most once and the splitter not at all.
C7_OriginalSentOnceAsDocument ==
    \A t \in Tasks :
        (Ended(t) /\ loc[t].cres \in {"failed", "large"}) =>
            /\ hist[t].sends = <<[kind |-> "document", path |-> loc[t].filepath,
                                  size |-> loc[t].file_size]>>
            /\ hist[t].encRuns <= 1
            /\ hist[t].sliceRuns = 0

C9_OversizeDeliveredBySplitting ==
    \A t \in Tasks :
        (Ended(t) /\ faults = 0 /\ loc[t].body > TELEGRAM_DOCUMENT_LIMIT) =>
            /\ hist[t].plan = "split"
            /\ hist[t].delivered >= 1

\* C10: when split_video yields no chunk (the probe returns 0, or every
\* slice fails), no artifact is handed to Telegram, the "Failed to split"
\* reply is issued, send_video_smart does not return True and handle_url
\* never issues its success status: it ends with a failure status.
C10_NoChunksIsFailure ==
    \A t \in Tasks :
        loc[t].split = "empty" =>
            /\ hist[t].sends = <<>> /\ hist[t].delivered = 0
            /\ "split_failed" \in hist[t].msgs
            /\ loc[t].svs # "true"
            /\ "sent_ok" \notin hist[t].msgs
            /\ pc[t] # "url_ok"
            /\ pc[t] = "url_fail" => loc[t].svs = "false"
            /\ Ended(t) => ("send_failed" \in hist[t].msgs \/ "error" \in hist[t].msgs)

\* Every slice of a split failed and the request ended with "Failed to
\* send video".
C10_Witness ==
    \E t \in Tasks :
        /\ Ended(t)
        /\ loc[t].split = "empty"
        /\ hist[t].sliceRuns >= 1
        /\ loc[t].svs = "false"
        /\ "send_failed" \in hist[t].msgs
        /\ hist[t].outcome = "returned"

----------------------------------------------------------------------------
\* C11: when the streamed response exceeds max_bytes, download_file_async
\* fails and no file is left at its destination when it returns, wherever
\* in the stream the excess was noticed.
C11_ExcessStep ==
    \A t \in Tasks :
        (pc[t] = "dl_stream" /\ loc'[t].dl = "toolarge") =>
            /\ loc'[t].body > 2000 * 1024 * 1024
            /\ pc'[t] = "url_dlfail"
            /\ "dlfail" \in hist'[t].msgs
            /\ loc'[t].filepath = NoPath
            /\ ~Exists(disk', DownloadPath(loc[t].title))

C11_NoFileAfterExcess == [][C11_ExcessStep]_vars

\* A body three chunks over the limit was refused and its file is gone.
C11_Witness ==
    \E t \in Tasks :
        /\ pc[t] = "url_dlfail"
        /\ loc[t].dl = "toolarge"
        /\ loc[t].body = TELEGRAM_DOCUMENT_LIMIT + 3 * 8192
        /\ ~Exists(disk, DownloadPath(loc[t].title))

\* C12 (as stated): when the stream fails with an I/O or network error after
\* the destination was opened, no partial file of that download remains,
\* neither when download_file_async returns nor after the request has ended
\* (no other request is writing to a file of that name).
C12_NoPartialAfterIOError ==
    \A t \in Tasks :
        (/\ loc[t].dl = "ioerror"
         /\ \A o \in Tasks \ {t} : loc[o].title # loc[t].title) =>
            ~Exists(disk, DownloadPath(loc[t].title))

\* C13: when the response status is not a 2xx code, download_file_async
\* fails at once: the step that sees the status leaves the disk as it is,
\* no body byte is read and no file path is returned.
C13_BadStatusStep ==
    \A t \in Tasks :
        (loc'[t].status # 0 /\ loc'[t].status \notin 200 .. 299) =>
            /\ loc'[t].dl = "badstatus"
            /\ loc'[t].body = -1
            /\ loc'[t].filepath = NoPath
            /\ pc'[t] \in {"url_dlfail", "url_except", "idle"}
            /\ "dlfail" \in hist'[t].msgs
            /\ pc[t] = "dl_get" => disk' = disk

C13_BadStatusFailsAtOnce == [][C13_BadStatusStep]_vars

\* A 404 response ended the download with nothing on disk.
C13_Witness ==
    \E t \in Tasks :
        /\ pc[t] = "url_dlfail"
        /\ loc[t].status = 404
        /\ disk = [p \in {} |-> 0]

----------------------------------------------------------------------------
\* The slots whose handler is sampling, or has sampled, with generate_clips.
StdSampled == {t \in Tasks : loc[t].sampler = "std" /\ loc[t].duration # -1}

\* generate_clips has returned to handle_video_file in slot t.
StdReturned(t) == loc[t].sampler = "std" /\ pc[t] \in {"vid_genmsg", "vid_fbmsg"}

\* C14: when the duration probed by generate_clips is 0 or below
\* clip_duration * num_clips + 10 s, generate_clips starts no encoder trim
\* and returns an empty list, never a partial set of clips.
C14_ShortYieldsNothing ==
    \A t \in StdSampled :
        loc[t].duration < ClipDuration * NumClips + 10 * 100
            => /\ hist[t].trims = <<>>
               /\ loc[t].clips = <<>>
               /\ pc[t] \notin {"gc_trim", "gc_verify", "vid_genmsg"}

\* generate_clips has returned [] for a video of 18 s.
C14_Witness ==
    \E t \in Tasks :
        /\ StdReturned(t)
        /\ loc[t].duration = 18 * 100
        /\ loc[t].clips = <<>>
        /\ pc[t] = "vid_fbmsg"

\* C15: for an uploaded video whose duration is below
\* clip_duration * num_clips + 10 s (25 s), handle_video_file invokes no
\* encoder trim and no clip is produced or sent to the requester.
C15_ShortUploadYieldsNoPreviews ==
    \A t \in Tasks :
        /\ loc[t].kind = "video"
        /\ loc[t].length # -1
        /\ loc[t].length < ClipDuration * NumClips + 10 * 100
        => /\ hist[t].trims = <<>>
           /\ loc[t].clips = <<>>
           /\ hist[t].sends = <<>>

\* C16: in every sampler reachable from handle_video_file (generate_clips,
\* generate_clips_simple on the proxy, generate_clips_fallback) no encoder
\* trim is started for a start offset o with o + clip_duration > duration,
\* and no clip for such an offset is returned.
C16_NoOutOfRangeTrim ==
    \A t \in Tasks :
        /\ \A n \in DOMAIN hist[t].trims :
               hist[t].trims[n].start + ClipDuration <= hist[t].trims[n].duration
        /\ \A n \in DOMAIN loc[t].clips :
               loc[t].clips[n].start + ClipDuration <= loc[t].duration

\* C17: for a source of 40 s, 3 clips of 5 s and the 10 s guard band,
\* generate_clips computes three offsets that all satisfy offset + 5 <= 40
\* and, when every encoder run succeeds and validates, returns exactly 3
\* clips in the order Beginning, Middle, End.
C17_FortySecondsThreeClips ==
    \A t \in Tasks :
        StdReturned(t) /\ loc[t].duration = 40 * 100
        => /\ Len(loc[t].positions) = 3
           /\ \A n \in DOMAIN loc[t].positions :
                  loc[t].positions[n].start + ClipDuration <= 40 * 100
           /\ Len(hist[t].trims) = Len(loc[t].clips)
                  => [n \in DOMAIN loc[t].clips |-> loc[t].clips[n].label]
                         = <<"Beginning", "Middle", "End">>

\* The place of a label in the order Beginning, Middle, End.
LabelRank(label) ==
    CASE label = "Beginning" -> 1
      [] label = "Middle" -> 2
      [] label = "End" -> 3

\* C18: the clips generate_clips returns are in the order Beginning, Middle,
\* End with strictly increasing start offsets, contain no label twice, and
\* number at most min(num_clips, 3), possibly fewer.
C18_ClipsInOffsetOrder ==
    \A t \in Tasks :
        loc[t].sampler = "std"
        => /\ Len(loc[t].clips) <= Min(NumClips, 3)
           /\ \A m, n \in DOMAIN loc[t].clips :
                  m < n => /\ loc[t].clips[m].start < loc[t].clips[n].start
                           /\ LabelRank(loc[t].clips[m].label)
                                  < LabelRank(loc[t].clips[n].label)

\* generate_clips has returned three clips, and elsewhere fewer after a
\* failed run.
C18_Witness ==
    \E t \in Tasks :
        /\ StdReturned(t)
        /\ Len(loc[t].clips) = 3
        /\ loc[t].clips[3].label = "End"
        /\ loc[t].clips[1].start < loc[t].clips[3].start

C18_WitnessFewer ==
    \E t \in Tasks :
        /\ StdReturned(t)
        /\ Len(hist[t].trims) = 3
        /\ Len(loc[t].clips) = 2
        /\ loc[t].clips[2].label = "End"

\* The files in TEMP_DIR that the URL request of slot t created: its
\* download, the compressed output and the chunks.
UrlFiles(t) ==
    {p \in DOMAIN disk : p[1] \in {"dl", "compressed", "part"} /\ p[2] = loc[t].title}

\* C19: when handle_url has returned, on every path, none of the files the
\* request created in TEMP_DIR (the download, the compressed output, the
\* chunks) remains on disk (no other request uses files of that name).
C19_UrlLeavesNoFile ==
    \A t \in Tasks :
        (/\ Ended(t)
         /\ loc[t].kind = "url"
         /\ \A o \in Tasks \ {t} : loc[o].title # loc[t].title) =>
            UrlFiles(t) = {}

\* C20: when handle_video_file returns after it has chosen its file name and
\* started the download from Telegram, on every path (clips sent, no clips,
\* encoder timeout, exception), the uploaded source, the proxy and every
\* clip file of that request have been deleted.
C20_EndStep ==
    \A t \in Tasks :
        (/\ loc[t].kind = "video"
         /\ loc[t].filepath # NoPath
         /\ pc[t] # "idle"
         /\ pc'[t] = "idle") =>
            LET fp == loc[t].filepath
                made == {fp, ProxyPath(fp)}
                            \cup {ClipPath(fp, n) : n \in 1 .. NumClips}
                            \cup {ClipPath(ProxyPath(fp), n) : n \in 1 .. NumClips}
            IN  made \cap DOMAIN disk' = {}

C20_UploadLeavesNoFile == [][C20_EndStep]_vars

\* An upload over 50MB was sampled through its proxy, clips were sent, the
\* request is over and its source and clips are gone.
C20_Witness ==
    \E t \in Tasks :
        /\ Ended(t)
        /\ loc[t].kind = "video"
        /\ loc[t].src = ProxyPath(loc[t].filepath)
        /\ Len(loc[t].clips) > 0
        /\ hist[t].delivered > 0
        /\ ~Exists(disk, loc[t].filepath)
        /\ ~Exists(disk, loc[t].clips[1].path)

----------------------------------------------------------------------------
\* The handler of slot t is running (suspended in one of its awaits).
InFlight(t) == pc[t] # "idle"

\* The paths the request of slot t works on: for a URL whose destination has
\* been opened, the download, its compressed output and its chunks; for an
\* upload, the source, its proxy and the clips.
PathsOf(t) ==
    IF loc[t].kind = "url" /\ loc[t].status = 200
    THEN LET fp == DownloadPath(loc[t].title)
         IN  {fp, CompressedPath(fp)} \cup {ChunkPath(fp, n) : n \in 1 .. 3}
    ELSE IF loc[t].kind = "video" /\ loc[t].filepath # NoPath
    THEN LET fp == loc[t].filepath
         IN  {fp, ProxyPath(fp)}
                 \cup {ClipPath(fp, n) : n \in 1 .. NumClips}
                 \cup {ClipPath(ProxyPath(fp), n) : n \in 1 .. NumClips}
    ELSE {}

\* C21: two requests of different requesters that run concurrently never
\* use the same file path: the files one of them writes, reads, transmits
\* or deletes are not files of the other.
C21_NoSharedPath ==
    \A t, o \in Tasks :
        (/\ t # o
         /\ InFlight(t) /\ InFlight(o)
         /\ loc[t].user # loc[o].user) =>
            PathsOf(t) \cap PathsOf(o) = {}

\* C22: when extract_video_url returns None, handle_url reports "could not
\* extract", attempts no fetch and no delivery, creates no file, leaves the
\* counters unchanged, calls the extraction once only, and has released the
\* requester's flag when it ends.
C22_FailedStep ==
    \A t \in Tasks :
        (/\ loc'[t].kind = "url"
         /\ hist'[t].extracts > 0
         /\ loc'[t].url = NoUrl) =>
            /\ "noextract" \in hist'[t].msgs
            /\ hist'[t].extracts = 1
            /\ hist'[t].fetches = 0
            /\ hist'[t].sends = <<>>
            /\ loc'[t].status = 0 /\ loc'[t].filepath = NoPath
            /\ pc'[t] \in {"url_noextract", "url_except", "idle"}
            /\ StepOf(t) => disk' = disk /\ user_stats' = user_stats
            /\ (pc[t] # "idle" /\ pc'[t] = "idle") =>
                   /\ ~hist'[t].holding
                   /\ loc'[t].user \notin DOMAIN user_processing'

C22_ResolutionFailure == [][C22_FailedStep]_vars

\* A request whose extraction failed is over and its flag is gone.
C22_Witness ==
    \E t \in Tasks :
        /\ Ended(t)
        /\ loc[t].kind = "url"
        /\ hist[t].extracts = 1
        /\ loc[t].url = NoUrl
        /\ "noextract" \in hist[t].msgs
        /\ ~FlagSet(loc[t].user)

\* The extraction of slot t's URL request has run and failed.
ResolutionFailed(t) ==
    loc[t].kind = "url" /\ hist[t].extracts > 0 /\ loc[t].url = NoUrl

C24_EmptyOutputIsFailure ==
    \A t \in Tasks :
        loc[t].kind = "url" =>
            /\ \A n \in DOMAIN hist[t].sends :
                   hist[t].sends[n].path = CompressedPath(loc[t].filepath)
                       => hist[t].sends[n].size > 0
            /\ (loc[t].cres = "small" /\ pc[t] = "svs_csend") =>
                   disk[CompressedPath(loc[t].filepath)] > 0

\* C25: in the split path every chunk split_video returned gets exactly one
\* send attempt, in increasing part order, as a video when it is smaller
\* than TELEGRAM_VIDEO_LIMIT and as a document otherwise; no chunk is
\* compressed or split again; each chunk file is removed after its attempt.
C25_EachChunkSentOnce ==
    \A t \in Tasks :
        (loc[t].kind = "url" /\ hist[t].plan = "split") =>
            LET sends == hist[t].sends
                chunks == loc[t].chunks
            IN  /\ Len(sends) <= Len(chunks)
                /\ \A n \in DOMAIN sends :
                       /\ sends[n].path = chunks[n][1]
                       /\ sends[n].kind = IF sends[n].size < TELEGRAM_VIDEO_LIMIT
                                          THEN "video" ELSE "document"
                /\ \A m, n \in DOMAIN chunks : m < n => chunks[m][2] < chunks[n][2]
                /\ hist[t].encRuns = 0
                /\ hist[t].sliceRuns <= loc[t].num_parts
                /\ (Ended(t) /\ loc[t].split = "chunks") =>
                       /\ Len(sends) = Len(chunks)
                       /\ \A n \in DOMAIN chunks :
                              (\A o \in Tasks \ {t} : ~InFlight(o))
                                  => ~Exists(disk, chunks[n][1])

\* C26: during download_file_async the bytes written to the destination
\* never exceed max_bytes by more than one read chunk (8192 bytes), and a
\* file returned as the successful result has a measured size <= max_bytes.
C26_StreamStep ==
    \A t \in Tasks :
        (pc[t] = "dl_stream" /\ StepOf(t)) =>
            /\ loc'[t].downloaded <= 2000 * 1024 * 1024 + 8192
            /\ loc'[t].dl = "ok" =>
                   /\ loc'[t].filepath \in DOMAIN disk'
                   /\ disk'[loc'[t].filepath] <= 2000 * 1024 * 1024
            /\ loc'[t].dl # "ok" => loc'[t].filepath = NoPath

C26_BoundedDownload == [][C26_StreamStep]_vars

\* A body three chunks over the limit was cut off one chunk past it.
C26_Witness ==
    \E t \in Tasks :
        /\ loc[t].dl = "toolarge"
        /\ loc[t].body = 2000 * 1024 * 1024 + 3 * 8192
        /\ loc[t].downloaded = 2000 * 1024 * 1024 + 8192

\* A body of exactly max_bytes was returned as the result.
C26_WitnessAtLimit ==
    \E t \in Tasks :
        /\ loc[t].dl = "ok"
        /\ loc[t].downloaded = 2000 * 1024 * 1024

\* C27: for every duration generate_clips accepts (at least
\* clip_duration * num_clips + 10 s), the windows
\* [offset, offset + clip_duration) of the positions that pass the range
\* check do not overlap each other.
C27_WindowsDisjoint ==
    \A t \in Tasks :
        loc[t].sampler = "std" =>
            LET ps == loc[t].positions
                survives(n) == ps[n].start + ClipDuration <= loc[t].duration
            IN  \A m, n \in DOMAIN ps :
                    (m < n /\ survives(m) /\ survives(n)) =>
                        ps[m].start + ClipDuration <= ps[n].start

\* C28: when a trim of generate_clips exceeds its timeout, the encoder is
\* stopped, the partial clip file is removed, no clip is added for that
\* position, and the loop goes on with the next position that fits (or
\* returns the clips collected so far when none is left): the batch does
\* not fail.
C28_TimeoutStep ==
    \A t \in Tasks :
        (pc[t] = "gc_trim" /\ hist'[t].timeouts # hist[t].timeouts) =>
            LET lc == loc[t]
                j == NextInRange(lc.positions, lc.i, lc.duration, ClipDuration)
            IN  /\ hist'[t].timeouts = hist[t].timeouts \cup {lc.i}
                /\ ClipPath(lc.src, lc.i) \notin DOMAIN disk'
                /\ loc'[t].clips = lc.clips
                /\ \A n \in DOMAIN lc.clips : lc.clips[n].num # lc.i
                /\ IF j <= Len(lc.positions)
                   THEN /\ pc'[t] = "gc_trim"
                        /\ loc'[t].i = j
                        /\ hist'[t].trims =
                               Append(hist[t].trims,
                                      [by |-> "std", start |-> lc.positions[j].start,
                                       duration |-> lc.duration])
                   ELSE /\ pc'[t] = IF lc.clips # <<>> THEN "vid_genmsg" ELSE "vid_fbmsg"
                        /\ hist'[t].trims = hist[t].trims

C28_TimeoutSkipsOneClip == [][C28_TimeoutStep]_vars

\* The first trim timed out, a later one produced a clip, and the clip was
\* delivered.
C28_Witness ==
    \E t \in Tasks :
        /\ 1 \in hist[t].timeouts
        /\ loc[t].sampler = "std"
        /\ \E n \in DOMAIN loc[t].clips : loc[t].clips[n].num > 1
        /\ hist[t].delivered > 0

\* The last trim timed out and the clips collected before it are returned.
C28_WitnessLast ==
    \E t \in Tasks :
        /\ hist[t].timeouts = {3}
        /\ Len(loc[t].clips) = 2
        /\ pc[t] = "vid_genmsg"

\* C29: every subprocess wait is bounded by a timeout, so a handler that
\* has started always ends, even when a subprocess it started never exits.
C29_EveryRequestEnds ==
    \A t \in Tasks : (pc[t] # "idle") ~> (pc[t] = "idle")

\* C30: under any interleaving of handlers, once every handler has ended a
\* requester's 'downloads' counter is the number of its URL requests whose
\* fetch succeeded and its 'clips' counter is the number of its uploads
\* that were downloaded successfully.
C30_DownloadsMatch ==
    \A u \in Users : get_stats(user_stats, u).downloads = tally[u].fetched

C30_ClipsMatch ==
    (\A t \in Tasks : pc[t] = "idle") =>
        \A u \in Users : get_stats(user_stats, u).clips = tally[u].received

C30_CountersMatch == C30_DownloadsMatch /\ C30_ClipsMatch

\* C31: when generate_clips has returned, every clip in its result came
\* from a trim with exit status 0, is on disk with more than 50KB and
\* passed the verification probe; every position that was trimmed and is
\* not such a clip has no file on disk and no entry in the result.
C31_OnlyValidClips ==
    \A t \in Tasks :
        StdReturned(t) =>
            LET lc == loc[t]
                nums == {lc.clips[n].num : n \in DOMAIN lc.clips}
                valid(i) == /\ i \in hist[t].encoded
                            /\ i \in hist[t].passed
                            /\ Exists(disk, ClipPath(lc.src, i))
                            /\ disk[ClipPath(lc.src, i)] > 50 * 1024
            IN  /\ \A i \in nums : valid(i)
                /\ \A i \in DOMAIN lc.positions :
                       ~valid(i) => /\ ~Exists(disk, ClipPath(lc.src, i))
                                    /\ i \notin nums

\* C32: split_video runs exactly ceil(duration / chunk_duration) slices,
\* every slice it runs starts strictly before the end of the video (also
\* when the duration is a multiple of chunk_duration), and the total that
\* each chunk carries is the number of slices run.
C32_SlicesCoverTheVideo ==
    \A t \in Tasks :
        (loc[t].num_parts > 0 /\ pc[t] # "sv_slice") =>
            LET lc == loc[t]
                runs == hist[t].sliceRuns
            IN  /\ runs = (lc.duration + SplitChunkDuration - 1) \div SplitChunkDuration
                /\ \A i \in 0 .. runs - 1 :
                       SliceStart(i, SplitChunkDuration) < lc.duration
                /\ \A j \in DOMAIN lc.chunks : lc.chunks[j][3] = runs

\* C33: send_video_smart returns True, and handle_url reports "Video sent
\* successfully", only when at least one artifact (the original, the
\* compressed output or a chunk) was transmitted without error; not when
\* every chunk send of the split path failed.
C33_SuccessMeansDelivered ==
    \A t \in Tasks :
        (loc[t].svs = "true" \/ "sent_ok" \in hist[t].msgs) => hist[t].delivered > 0

====
